---- MODULE Spec2Model ----
(***************************************************************************)
(* A model of the live-tree editor of                                      *)
(* packages/mui-live/runtime/components (Editor, NodeEditor, hash,         *)
(* registerComponent): the hierarchy the MutationObserver callback builds  *)
(* from the canvas, the selection resolved against it, the component       *)
(* property registry and the patches an edit forwards.                     *)
(*                                                                         *)
(* JavaScript strings are sequences of UTF-16 code units; null is NULL.    *)
(* 32-bit integers are pairs <<hi, lo>> of 16-bit limbs, so that the       *)
(* arithmetic of hash() wraps exactly as `<< 0` makes it wrap.             *)
(***************************************************************************)
EXTENDS Integers, Sequences, FiniteSets, TLC

\* ------------------------------------------------------------ strings

\* null (getAttribute of a missing attribute, a null selection, a null value)
NULL == <<-1>>

\* A JavaScript value is truthy unless it is null or the empty string.
Truthy(v) == v # NULL /\ v # <<>>

\* ":" in the template literal `${item.moduleId}:${item.nodeId}`
Colon == 58

\* "0", the first decimal digit
Digit0 == 48

\* ------------------------------------------------------------ hash

\* 2^16: a 32-bit integer is hi * Limb + lo
Limb == 256 * 256

\* hash << 5, wrapped to 32 bits
Shl5(h) == << ((h[1] * 32) + ((h[2] * 32) \div Limb)) % Limb, (h[2] * 32) % Limb >>

\* a - b, wrapped to 32 bits
U32Sub(a, b) ==
    LET lo == a[2] - b[2]
        borrow == IF lo < 0 THEN 1 ELSE 0
    IN  << (((a[1] - b[1]) - borrow) + Limb) % Limb, (lo + Limb) % Limb >>

\* a + c for a code unit c, wrapped to 32 bits
U32AddSmall(a, c) ==
    LET lo == a[2] + c
    IN  << (a[1] + (lo \div Limb)) % Limb, lo % Limb >>

\* one turn of the loop: hash = ((hash << 5) - hash + str.charCodeAt(i++)) << 0
HashStep(h, c) == U32AddSmall(U32Sub(Shl5(h), h), c)

\* the while loop of hash(): the 32-bit value after all of str
RECURSIVE HashLoop(_, _)
HashLoop(h, str) ==
    IF str = <<>> THEN h ELSE HashLoop(HashStep(h, Head(str)), Tail(str))

\* hash + 2147483647 + 1 for the signed reading of h: the top bit flipped
Bias(h) == << (h[1] + (Limb \div 2)) % Limb, h[2] >>

\* String(n) for 0 <= n < 2^32: the decimal digits, most significant first
RECURSIVE Digits(_)
Digits(u) ==
    IF u = <<0, 0>> THEN <<>>
    ELSE LET t == (u[1] % 10) * Limb + u[2]
         IN  Digits(<< u[1] \div 10, t \div 10 >>) \o << Digit0 + (t % 10) >>

DecimalString(u) == IF u = <<0, 0>> THEN << Digit0 >> ELSE Digits(u)

hash(str) == DecimalString(Bias(HashLoop(<<0, 0>>, str)))

\* ------------------------------------------------------ the registries

\* module ids "Aa" and "BB" (their hashes collide), node ids "1" and "2"
ModAa == << 65, 97 >>
ModBB == << 66, 66 >>
Node1 == << 49 >>
Node2 == << 50 >>

\* hash(`${moduleId}:${nodeId}`) of the pairs the registries name, computed once
ItemIds == [m \in {ModAa, ModBB}, n \in {Node1, Node2} |-> hash(m \o << Colon >> \o n)]

\* an identity that also hashes in the number of the item's children
getItemIdOfContent(item) ==
    hash(item.moduleId \o << Colon >> \o item.nodeId
         \o << Colon, Digit0 + Len(item.children) >>)

\* getItemId: the identity string of a hierarchy item
getItemId(item) ==
    IF << item.moduleId, item.nodeId >> \in DOMAIN ItemIds
    THEN ItemIds[item.moduleId, item.nodeId]
    ELSE hash(item.moduleId \o << Colon >> \o item.nodeId)

\* attribute values "red" and "blue"
Red == << 114, 101, 100 >>
Blue == << 98, 108, 117, 101 >>

\* nodeInfo.component when the node names no component
NoComponent == "null"

\* NodeInfo entries of the Node Registry (./internal)
ButtonRed ==
    [jsxTagName |-> "Button", component |-> "Button",
     attributes |-> << [name |-> "color", kind |-> "static", value |-> Red] >>]
ButtonBlue ==
    [jsxTagName |-> "Button", component |-> "Button",
     attributes |-> << [name |-> "color", kind |-> "static", value |-> Blue] >>]
ButtonDynamic ==
    [jsxTagName |-> "Button", component |-> "Button",
     attributes |-> << [name |-> "color", kind |-> "dynamic", value |-> Blue] >>]
CardDynamic ==
    [jsxTagName |-> "Card", component |-> "Card",
     attributes |-> << [name |-> "color", kind |-> "dynamic", value |-> Blue] >>]

DivPlain == [jsxTagName |-> "div", component |-> NoComponent, attributes |-> << >>]

\* a module entry: { nodes: Map<nodeId, NodeInfo> }, node "1" described by info
ModuleOf(nodeIds, info) ==
    [nodes |-> [n \in nodeIds |-> IF n = Node1 THEN info ELSE DivPlain]]

\* the contents the Node Registry takes: in step with the markers, after a
\* persisted edit of Aa:1, with node Aa:1 missing, with module BB missing
RegistryInSync == [m \in {ModAa, ModBB} |->
    IF m = ModAa THEN ModuleOf({Node1, Node2}, ButtonRed)
    ELSE ModuleOf({Node1}, CardDynamic)]
RegistryEdited == [RegistryInSync EXCEPT ![ModAa] = ModuleOf({Node1, Node2}, ButtonBlue)]
RegistryNoNode == [RegistryInSync EXCEPT ![ModAa] = ModuleOf({Node2}, ButtonRed)]
RegistryNoModule == [m \in {ModBB} |-> ModuleOf({Node1}, CardDynamic)]
Registries == {RegistryInSync, RegistryNoNode, RegistryNoModule}
EditRegistries == {RegistryInSync, RegistryEdited}
RegistryDynamic == [RegistryInSync EXCEPT ![ModAa] = ModuleOf({Node1, Node2}, ButtonDynamic)]
AttributeRegistries == {RegistryInSync, RegistryDynamic}
PanelRegistries == EditRegistries \cup {RegistryDynamic}

\* ------------------------------------------------------------ the DOM

\* a node of the canvas: kind "html" is an HTMLElement, "svg" an element that
\* is none (SVGElement), "text" a text node; moduleId and nodeId are what
\* getAttribute returns for the two data-mui-live-* attributes
DomNode(kind, m, n) ==
    [kind |-> kind, moduleId |-> m, nodeId |-> n, childNodes |-> <<>>]

\* the nodes hosted content inserts: an identified element, a wrapper with no
\* marker, an element whose node marker is empty, an identified SVG element,
\* an SVG element with no marker, a text node
Templates ==
    { DomNode("html", ModAa, Node1), DomNode("html", NULL, NULL),
      DomNode("html", ModAa, <<>>), DomNode("svg", ModAa, Node1),
      DomNode("svg", NULL, NULL), DomNode("text", NULL, NULL) }

\* identified elements of three nodes, two of which share their identity string
SelectTemplates ==
    { DomNode("html", ModAa, Node1), DomNode("html", ModBB, Node1),
      DomNode("html", ModAa, Node2) }

\* most nodes in the canvas (of SpecEdit and SpecPanel: MaxEditNodes), most
\* mutations one notification reports or the editor has not rendered yet (of
\* SpecSelect, SpecEdit and SpecPanel: MaxEditBatch), most saveNodeProperties
\* calls followed
MaxNodes == 2
MaxEditNodes == 1
MaxBatch == 2
MaxEditBatch == 1
MaxSaved == 1

RECURSIVE NodeCount(_)
NodeCount(nodes) ==
    IF nodes = <<>> THEN 0
    ELSE 1 + NodeCount(Head(nodes).childNodes) + NodeCount(Tail(nodes))

\* paths (child indices from the canvas down) of the nodes that can hold
\* children: the canvas itself, <<>>, and every element
RECURSIVE ParentPaths(_)
ParentPaths(nodes) ==
    {<<>>} \cup UNION { { <<i>> \o p : p \in ParentPaths(nodes[i].childNodes) } :
                        i \in { j \in 1..Len(nodes) : nodes[j].kind # "text" } }

\* paths of all nodes below the canvas
RECURSIVE NodePaths(_)
NodePaths(nodes) ==
    UNION { { <<i>> } \cup { <<i>> \o p : p \in NodePaths(nodes[i].childNodes) } :
            i \in 1..Len(nodes) }

\* parent.insertBefore(n, parent.childNodes[idx]) at the parent of `path`
RECURSIVE InsertAt(_, _, _, _)
InsertAt(nodes, path, idx, n) ==
    IF path = <<>>
    THEN SubSeq(nodes, 1, idx - 1) \o << n >> \o SubSeq(nodes, idx, Len(nodes))
    ELSE [nodes EXCEPT ![Head(path)].childNodes = InsertAt(@, Tail(path), idx, n)]

\* node.remove() of the node at `path`
RECURSIVE RemoveAt(_, _)
RemoveAt(nodes, path) ==
    IF Len(path) = 1
    THEN SubSeq(nodes, 1, Head(path) - 1) \o SubSeq(nodes, Head(path) + 1, Len(nodes))
    ELSE [nodes EXCEPT ![Head(path)].childNodes = RemoveAt(@, Tail(path))]

RECURSIVE ChildrenAt(_, _)
ChildrenAt(nodes, path) ==
    IF path = <<>> THEN nodes ELSE ChildrenAt(nodes[Head(path)].childNodes, Tail(path))

\* ------------------------------------------------------------ state

VARIABLES
    phase,          \* "rendered": effect not yet run; "mounted": the observer
                    \* observes; "unmounted": observer.disconnect() has run
    canvasRef,      \* canvasRef.current: "div" or "null"
    dom,            \* canvasRef.current.childNodes
    modules,        \* the Node Registry
    components,     \* the Component Property Registry
    nodeTree,       \* useState<HierarchyItem[]>, as last rendered
    pending,        \* the setNodeTree update Editor has not rendered yet:
                    \* <<>> or << forest >>
    unrendered,     \* with an update not yet rendered: how many mutations were
                    \* delivered to callbacks since the last render
    selectedItemId, \* useState<string | null>
    records,        \* mutation records queued for the observer's callback
    lastCallback,   \* how the last observer callback ended: "none", "ok", "threw"
    saved,          \* the saveNodeProperties calls made, in order
    edited,         \* <<key, newFieldValue>> of the last onChange call, or <<>>
    selectedNode,   \* <<moduleId, nodeId>> of the item the user selected, or NULL
    rendered        \* the last render of NodeEditor: <<>> when Editor rendered
                    \* none, else << [value, rows] >>

vars == << phase, canvasRef, dom, modules, components, nodeTree, selectedItemId,
           records, lastCallback, saved, edited, selectedNode, rendered, pending, unrendered >>

\* ------------------------------------------------------ Tree Synchronizer

\* modules.get(moduleId)?.nodes.get(nodeId) is defined
HasNodeInfo(m, n) == m \in DOMAIN modules /\ n \in DOMAIN modules[m].nodes

\* the result of a call: a value, or the invariant() failure thrown
Returned(nodes) == [threw |-> FALSE, nodes |-> nodes]
Thrown == [threw |-> TRUE, nodes |-> <<>>]

\* findNodes without its invariant(): an element the registry lacks is
\* passed over
RECURSIVE findNodesSkipsMissing(_)
findNodesSkipsMissing(elms) ==
    IF elms = <<>> THEN Returned(<<>>)
    ELSE LET elm == Head(elms)
             below == findNodesSkipsMissing(elm.childNodes)
             rest == findNodesSkipsMissing(Tail(elms))
         IN  IF elm.kind # "html" THEN rest
             ELSE IF Truthy(elm.moduleId) /\ Truthy(elm.nodeId)
             THEN IF ~HasNodeInfo(elm.moduleId, elm.nodeId) THEN rest
                  ELSE Returned(
                         << [nodeInfo |-> modules[elm.moduleId].nodes[elm.nodeId],
                             moduleId |-> elm.moduleId,
                             nodeId |-> elm.nodeId,
                             children |-> below.nodes] >> \o rest.nodes)
             ELSE Returned(below.nodes \o rest.nodes)

\* findNodes(elms): the items of a NodeList, or the invariant failure
RECURSIVE findNodes(_)
findNodes(elms) ==
    IF elms = <<>> THEN Returned(<<>>)
    ELSE LET elm == Head(elms) IN
         IF elm.kind # "html" THEN findNodes(Tail(elms))
         ELSE IF Truthy(elm.moduleId) /\ Truthy(elm.nodeId)
         THEN IF ~HasNodeInfo(elm.moduleId, elm.nodeId) THEN Thrown
              ELSE LET below == findNodes(elm.childNodes)
                       rest == findNodes(Tail(elms))
                   IN  IF below.threw \/ rest.threw THEN Thrown
                       ELSE Returned(
                         << [nodeInfo |-> modules[elm.moduleId].nodes[elm.nodeId],
                             moduleId |-> elm.moduleId,
                             nodeId |-> elm.nodeId,
                             children |-> below.nodes] >> \o rest.nodes)
         ELSE LET below == findNodes(elm.childNodes)
                  rest == findNodes(Tail(elms))
              IN  IF below.threw \/ rest.threw THEN Thrown
                  ELSE Returned(below.nodes \o rest.nodes)

\* ------------------------------------------------------ Selection Resolver

\* the search looking below an item before looking at the item
RECURSIVE findItemChildrenFirst(_, _)
findItemChildrenFirst(items, id) ==
    IF items = <<>> THEN <<>>
    ELSE LET found == findItemChildrenFirst(Head(items).children, id)
         IN  IF found # <<>> THEN found
             ELSE IF getItemId(Head(items)) = id THEN << Head(items) >>
             ELSE findItemChildrenFirst(Tail(items), id)

\* findItem(items) for a selectedItemId of id: <<item>> for the item found,
\* <<>> for null
RECURSIVE findItem(_, _)
findItem(items, id) ==
    IF items = <<>> THEN <<>>
    ELSE IF getItemId(Head(items)) = id THEN << Head(items) >>
    ELSE LET found == findItem(Head(items).children, id)
         IN  IF found # <<>> THEN found ELSE findItem(Tail(items), id)

\* the useMemo callback over [nodeTree, selectedItemId]
selectedItemOf(tree, id) == IF ~Truthy(id) THEN <<>> ELSE findItem(tree, id)

\* the useMemo value selectedItem
selectedItem == selectedItemOf(nodeTree, selectedItemId)

\* every item of a forest, at any depth
RECURSIVE ItemsOf(_)
ItemsOf(items) ==
    IF items = <<>> THEN {}
    ELSE {Head(items)} \cup ItemsOf(Head(items).children) \cup ItemsOf(Tail(items))

\* ------------------------------------------------------------ NodeEditor

\* ComponentInfo values: properties in Object.entries order, each with its
\* PropertyInfo ("Editor": an object with an Editor; "NoEditor": an object
\* without one; "undefined": the key is set to undefined, as the optional
\* property type allows)
ColorOnly == [properties |-> << [key |-> "color", info |-> "Editor"] >>]
ColorAndNodeId ==
    [properties |-> << [key |-> "color", info |-> "Editor"],
                       [key |-> "nodeId", info |-> "Editor"] >>]
ColorNoEditor == [properties |-> << [key |-> "color", info |-> "NoEditor"] >>]
ColorUndefined == [properties |-> << [key |-> "color", info |-> "undefined"] >>]
EditableInfos == {ColorOnly, ColorAndNodeId}
ComponentInfos == EditableInfos \cup {ColorNoEditor, ColorUndefined}

\* the component references registerComponent is called with
ComponentRefs == {"Button"}

DEFAULT_COMPONENT_INFO == [properties |-> << >>]

\* the lookup falling back to a registered entry instead of the default
componentInfoLastRegistered(item) ==
    IF item.nodeInfo.component # NoComponent /\ item.nodeInfo.component \in DOMAIN components
    THEN components[item.nodeInfo.component]
    ELSE IF DOMAIN components # {}
    THEN components[CHOOSE c \in DOMAIN components : TRUE]
    ELSE DEFAULT_COMPONENT_INFO

\* (value?.nodeInfo.component ? components.get(...) : null) ?? DEFAULT_COMPONENT_INFO
componentInfo(item) ==
    IF item.nodeInfo.component # NoComponent /\ item.nodeInfo.component \in DOMAIN components
    THEN components[item.nodeInfo.component]
    ELSE DEFAULT_COMPONENT_INFO

\* the lookup without its filter: the first attribute of that name, of any kind
attributeValueAnyKind(item, key) ==
    LET named == SelectSeq(item.nodeInfo.attributes, LAMBDA attr : attr.name = key)
    IN  IF named = << >> THEN NULL ELSE Head(named).value

\* attributes.filter(kind === "static").find(name === key)?.value ?? null
attributeValue(item, key) ==
    LET static == SelectSeq(item.nodeInfo.attributes, LAMBDA attr : attr.kind = "static")
        named == SelectSeq(static, LAMBDA attr : attr.name = key)
    IN  IF named = << >> THEN NULL ELSE Head(named).value

\* what the callback over Object.entries(componentInfo.properties) returns for
\* one entry: the editor with the value handed to it, the "Editor not found"
\* text, or the TypeError of reading .Editor of undefined
PropertyRow(item, property) ==
    [key |-> property.key,
     shown |-> IF property.info = "undefined" THEN "TypeError"
               ELSE IF property.info = "Editor" THEN "Editor"
               ELSE "Editor not found",
     value |-> IF property.info = "Editor" THEN attributeValue(item, property.key)
               ELSE NULL]

\* the rows NodeEditor renders for an item
PropertyRows(item) ==
    [i \in 1..Len(componentInfo(item).properties) |->
        PropertyRow(item, componentInfo(item).properties[i])]

\* the render of NodeEditor raises
RenderThrows(item) ==
    \E i \in 1..Len(PropertyRows(item)) : PropertyRows(item)[i].shown = "TypeError"

\* Object.keys of a composite value: the item's fields as the literal of
\* findNodes lists them, then the keys a spread added
KeyOrder == << "nodeInfo", "moduleId", "nodeId", "children", "color" >>
Keys(obj) == SelectSeq(KeyOrder, LAMBDA k : k \in DOMAIN obj)

Reverse(seq) == [i \in 1..Len(seq) |-> seq[Len(seq) + 1 - i]]

RECURSIVE Concat(_)
Concat(seqs) == IF seqs = << >> THEN << >> ELSE Head(seqs) \o Concat(Tail(seqs))

\* diff(obj1, obj2) of just-diff for two objects whose differing values are
\* primitives: the removes in reverse key order, then the replaces, then the adds
diff(obj1, obj2) ==
    LET removes == [i \in 1..Len(Keys(obj1)) |->
                      IF Keys(obj1)[i] \notin DOMAIN obj2
                      THEN << [op |-> "remove", path |-> << Keys(obj1)[i] >>] >>
                      ELSE << >>]
        replaces == [i \in 1..Len(Keys(obj2)) |->
                      LET k == Keys(obj2)[i] IN
                      IF k \in DOMAIN obj1 /\ obj1[k] # obj2[k]
                      THEN << [op |-> "replace", path |-> << k >>, value |-> obj2[k]] >>
                      ELSE << >>]
        adds == [i \in 1..Len(Keys(obj2)) |->
                      LET k == Keys(obj2)[i] IN
                      IF k \notin DOMAIN obj1
                      THEN << [op |-> "add", path |-> << k >>, value |-> obj2[k]] >>
                      ELSE << >>]
    IN  Reverse(Concat(removes)) \o Concat(replaces) \o Concat(adds)

\* the object literal without its spread: { [key]: newFieldValue }
newValueWithoutSpread(value, key, newFieldValue) == [k \in {key} |-> newFieldValue]

\* one render of NodeEditor: the item it closes over and the rows it returns,
\* from the ComponentInfo the registry holds at that moment
NodeEditor(item) == [value |-> item, rows |-> PropertyRows(item)]

\* Editor renders after a state change, over the forest `tree`, and `queued` is
\* the setNodeTree update the render leaves for a later one: NodeEditor is
\* rendered for the selected item, if any; a render that raises is caught by no
\* boundary and unmounts Editor: the ref is detached at the commit, and the
\* effect's cleanup disconnects the observer in that commit or in a later task
Render(tree, id, queued) ==
    LET sel == selectedItemOf(tree, id) IN
    /\ rendered' = IF sel = << >> THEN << >> ELSE << NodeEditor(Head(sel)) >>
    /\ IF sel # << >> /\ RenderThrows(Head(sel))
       THEN /\ canvasRef' = "null" /\ pending' = << >> /\ unrendered' = 0
            /\ \/ phase' = "unmounted" /\ records' = 0
               \/ phase' = phase /\ records' = records
       ELSE /\ phase' = phase /\ canvasRef' = canvasRef /\ records' = records
            /\ pending' = queued
            /\ unrendered' = IF queued = << >> THEN 0 ELSE unrendered

\* { ...value, [key]: newFieldValue }
newValue(value, key, newFieldValue) ==
    [k \in DOMAIN value \cup {key} |-> IF k = key THEN newFieldValue ELSE value[k]]

\* handleChange(key)(newFieldValue): the arguments of the saveNodeProperties call
handleChange(value, key, newFieldValue) ==
    [moduleId |-> value.moduleId, nodeId |-> value.nodeId,
     patches |-> diff(value, newValue(value, key, newFieldValue))]

\* the values a property editor hands to onChange: "blue", "1"
EditValues == {Blue, Node1}

\* ------------------------------------------------------------ actions

\* what the hosted children have rendered when the effect first runs
InitialDoms == { <<>>, << DomNode("html", ModAa, Node1) >> }

Init ==
    /\ phase = "rendered"
    /\ canvasRef = "div"
    /\ dom \in InitialDoms
    /\ modules = RegistryInSync
    /\ components = << >>
    /\ nodeTree = << >>
    /\ selectedItemId = NULL
    /\ records = 0
    /\ lastCallback = "none"
    /\ saved = << >>
    /\ edited = << >>
    /\ selectedNode = NULL
    /\ rendered = << >>
    /\ pending = << >>
    /\ unrendered = 0

\* the effect of Editor: the observer is created and observes the canvas
Mount ==
    /\ phase = "rendered"
    /\ phase' = "mounted"
    /\ UNCHANGED << canvasRef, dom, modules, components, nodeTree, selectedItemId,
                    records, lastCallback, saved, edited, selectedNode, rendered,
                    pending, unrendered >>

\* Editor is removed: the ref of the canvas Box is set to null when the removal
\* is committed, while the cleanup of the effect has not run yet; an update
\* not yet rendered is never rendered
DetachRef ==
    /\ phase = "mounted"
    /\ canvasRef = "div"
    /\ canvasRef' = "null"
    /\ pending' = << >>
    /\ unrendered' = 0
    /\ UNCHANGED << phase, dom, modules, components, nodeTree, selectedItemId,
                    records, lastCallback, saved, edited, selectedNode, rendered >>

\* the cleanup of the effect, run when Editor unmounts: observer.disconnect(),
\* which also drops the records not yet delivered; the ref is null by then
Unmount ==
    /\ phase = "mounted"
    /\ phase' = "unmounted"
    /\ canvasRef' = "null"
    /\ records' = 0
    /\ pending' = << >>
    /\ unrendered' = 0
    /\ UNCHANGED << dom, modules, components, nodeTree, selectedItemId,
                    lastCallback, saved, edited, selectedNode, rendered >>

\* a mutation of the canvas is queued for the observer while it observes, and
\* not once it is disconnected
Observed ==
    IF phase = "mounted" THEN records' = records + 1 ELSE records' = records

\* hosted content inserts a node somewhere below the canvas
InsertNode(templates, maxNodes, maxBatch) ==
    /\ phase \in {"mounted", "unmounted"}
    /\ records + unrendered < maxBatch
    /\ NodeCount(dom) < maxNodes
    /\ \E t \in templates, path \in ParentPaths(dom) :
         \E idx \in 1..(Len(ChildrenAt(dom, path)) + 1) :
            dom' = InsertAt(dom, path, idx, t)
    /\ Observed
    /\ UNCHANGED << phase, canvasRef, modules, components, nodeTree, selectedItemId,
                    lastCallback, saved, edited, selectedNode, rendered, pending, unrendered >>

\* hosted content removes a node, with all below it
RemoveNode(maxBatch) ==
    /\ phase \in {"mounted", "unmounted"}
    /\ records + unrendered < maxBatch
    /\ \E path \in NodePaths(dom) : dom' = RemoveAt(dom, path)
    /\ Observed
    /\ UNCHANGED << phase, canvasRef, modules, components, nodeTree, selectedItemId,
                    lastCallback, saved, edited, selectedNode, rendered, pending, unrendered >>

\* the callback publishing what was built when the walk fails
NotifyPublishesPartial ==
    /\ phase = "mounted"
    /\ records > 0
    /\ records' = 0
    /\ LET found == findNodes(dom) IN
         IF canvasRef = "null"
         THEN /\ lastCallback' = "threw" /\ pending' = pending
              /\ unrendered' = IF pending = << >> THEN 0 ELSE unrendered + records
         ELSE IF found.threw
         THEN /\ lastCallback' = "threw" /\ pending' = << findNodesSkipsMissing(dom).nodes >>
              /\ unrendered' = unrendered + records
         ELSE /\ lastCallback' = "ok" /\ pending' = << found.nodes >>
              /\ unrendered' = unrendered + records
    /\ UNCHANGED << phase, canvasRef, dom, modules, components, nodeTree,
                    selectedItemId, saved, edited, selectedNode, rendered >>

\* the callback adding what it finds to the forest it had
NotifyAccumulates ==
    /\ phase = "mounted"
    /\ records > 0
    /\ records' = 0
    /\ LET found == findNodes(dom) IN
         IF canvasRef = "null" \/ found.threw
         THEN /\ lastCallback' = "threw" /\ pending' = pending
              /\ unrendered' = IF pending = << >> THEN 0 ELSE unrendered + records
         ELSE /\ lastCallback' = "ok" /\ pending' = << nodeTree \o found.nodes >>
              /\ unrendered' = unrendered + records
    /\ UNCHANGED << phase, canvasRef, dom, modules, components, nodeTree,
                    selectedItemId, saved, edited, selectedNode, rendered >>

\* the MutationObserver callback, run with the records queued:
\* invariant(canvasRef.current), then setNodeTree(findNodes(...)), which
\* schedules a render of Editor; a later setNodeTree replaces one not yet
\* rendered, and a callback that raises sets no state
Notify ==
    /\ phase = "mounted"
    /\ records > 0
    /\ records' = 0
    /\ LET found == findNodes(dom) IN
         IF canvasRef = "null" \/ found.threw
         THEN /\ lastCallback' = "threw" /\ pending' = pending
              /\ unrendered' = IF pending = << >> THEN 0 ELSE unrendered + records
         ELSE /\ lastCallback' = "ok" /\ pending' = << found.nodes >>
              /\ unrendered' = unrendered + records
    /\ UNCHANGED << phase, canvasRef, dom, modules, components, nodeTree,
                    selectedItemId, saved, edited, selectedNode, rendered >>

\* React renders Editor for the setNodeTree update: the forest becomes the
\* state, selectedItem is resolved over it and NodeEditor renders
RenderEditor ==
    /\ phase = "mounted"
    /\ canvasRef = "div"
    /\ pending # << >>
    /\ nodeTree' = Head(pending)
    /\ Render(Head(pending), selectedItemId, << >>)
    /\ UNCHANGED << dom, modules, components, selectedItemId, lastCallback, saved,
                    edited, selectedNode >>

\* onSelectedItemsChange with the id of an item the tree view shows. With the
\* id the one Editor holds nothing is rendered anew; else Editor renders over
\* the forest it holds and a setNodeTree update still queued stays queued. The
\* render React runs for the click may instead take the queued update with it,
\* whatever the id: which of the two is React's scheduling
SelectItem ==
    /\ phase = "mounted"
    /\ canvasRef = "div"
    /\ \E item \in ItemsOf(nodeTree) :
         /\ selectedItemId' = getItemId(item)
         /\ selectedNode' = << item.moduleId, item.nodeId >>
         /\ \/ /\ nodeTree' = nodeTree
               /\ IF getItemId(item) = selectedItemId
                  THEN UNCHANGED << phase, canvasRef, records, rendered, pending,
                                    unrendered >>
                  ELSE Render(nodeTree, getItemId(item), pending)
            \/ /\ pending # << >>
               /\ nodeTree' = Head(pending)
               /\ Render(Head(pending), getItemId(item), << >>)
    /\ UNCHANGED << dom, modules, components, lastCallback, saved, edited >>

\* onSelectedItemsChange with null: Editor renders with no item selected; a
\* setNodeTree update still queued stays queued or is rendered with it
Deselect ==
    /\ phase = "mounted"
    /\ canvasRef = "div"
    /\ selectedItemId # NULL
    /\ selectedItemId' = NULL
    /\ selectedNode' = NULL
    /\ \/ /\ nodeTree' = nodeTree
          /\ Render(nodeTree, NULL, pending)
       \/ /\ pending # << >>
          /\ nodeTree' = Head(pending)
          /\ Render(Head(pending), NULL, << >>)
    /\ UNCHANGED << dom, modules, components, lastCallback, saved, edited >>

\* the Node Registry is repopulated by its owner
SetRegistry(registries) ==
    /\ \E r \in registries \ {modules} : modules' = r
    /\ UNCHANGED << phase, canvasRef, dom, components, nodeTree, selectedItemId,
                    records, lastCallback, saved, edited, selectedNode, rendered,
                    pending, unrendered >>

Next ==
    \/ Mount
    \/ DetachRef
    \/ Unmount
    \/ InsertNode(Templates, MaxNodes, MaxBatch)
    \/ RemoveNode(MaxBatch)
    \/ Notify
    \/ RenderEditor
    \/ SelectItem
    \/ Deselect
    \/ SetRegistry(Registries)

Spec == Init /\ [][Next]_vars

\* the editor in place, its canvas and the Node Registry changing
NextRebuild ==
    \/ Mount
    \/ InsertNode(Templates, MaxNodes, MaxBatch)
    \/ RemoveNode(MaxBatch)
    \/ Notify
    \/ RenderEditor
    \/ SetRegistry(Registries)

SpecRebuild == Init /\ [][NextRebuild]_vars

\* registerComponent(component, componentInfo): components.set; nothing renders
registerComponent(infos) ==
    /\ \E c \in ComponentRefs, info \in infos :
         /\ ~(c \in DOMAIN components /\ components[c] = info)
         /\ components' = [d \in DOMAIN components \cup {c} |->
                             IF d = c THEN info ELSE components[d]]
    /\ UNCHANGED << phase, canvasRef, dom, modules, nodeTree, selectedItemId,
                    records, lastCallback, saved, edited, selectedNode, rendered,
                    pending, unrendered >>

\* onChange writing the new field into the item itself instead of a copy
OnChangeMutatesItem ==
    /\ phase = "mounted"
    /\ canvasRef = "div"
    /\ rendered # << >>
    /\ Len(saved) < MaxSaved
    /\ LET value == Head(rendered).value
           rows == Head(rendered).rows
       IN  \E i \in 1..Len(rows), v \in EditValues :
             /\ rows[i].shown = "Editor"
             /\ saved' = Append(saved, handleChange(value, rows[i].key, v))
             /\ edited' = << rows[i].key, v >>
             /\ nodeTree' = [n \in 1..Len(nodeTree) |->
                                IF nodeTree[n] = value
                                THEN newValue(value, rows[i].key, v)
                                ELSE nodeTree[n]]
    /\ UNCHANGED << phase, canvasRef, dom, modules, components, selectedItemId,
                    records, lastCallback, selectedNode, rendered, pending, unrendered >>

\* an editor NodeEditor rendered calls the onChange it was handed:
\* handleChange(key) of that render, over the item of that render
OnChange ==
    /\ phase = "mounted"
    /\ canvasRef = "div"
    /\ rendered # << >>
    /\ Len(saved) < MaxSaved
    /\ LET value == Head(rendered).value
           rows == Head(rendered).rows
       IN  \E i \in 1..Len(rows), v \in EditValues :
             /\ rows[i].shown = "Editor"
             /\ saved' = Append(saved, handleChange(value, rows[i].key, v))
             /\ edited' = << rows[i].key, v >>
    /\ UNCHANGED << phase, canvasRef, dom, modules, components, nodeTree,
                    selectedItemId, records, lastCallback, selectedNode, rendered,
                    pending, unrendered >>

\* the editor with property editors in use
NextEdit ==
    \/ Mount
    \/ InsertNode(SelectTemplates, MaxEditNodes, MaxEditBatch)
    \/ RemoveNode(MaxEditBatch)
    \/ Notify
    \/ RenderEditor
    \/ SelectItem
    \/ SetRegistry(AttributeRegistries)
    \/ registerComponent(EditableInfos)
    \/ OnChange

SpecEdit == Init /\ [][NextEdit]_vars

\* the editor with components registered with and without property editors
NextPanel ==
    \/ Mount
    \/ InsertNode(SelectTemplates, MaxEditNodes, MaxEditBatch)
    \/ RemoveNode(MaxEditBatch)
    \/ Notify
    \/ RenderEditor
    \/ SelectItem
    \/ Unmount
    \/ SetRegistry(PanelRegistries)
    \/ registerComponent(ComponentInfos)
    \/ OnChange

SpecPanel == Init /\ [][NextPanel]_vars

\* ------------------------------------------------------------ properties

\* an observer callback runs in this step
NotifyStep == records > 0 /\ records' = 0 /\ phase' = "mounted"

\* Editor renders the forest of a rebuild in this step
RenderStep ==
    pending # << >> /\ pending' = << >> /\ phase' = "mounted" /\ canvasRef' = "div"

\* it does so in a step in which the user selects no other node
RebuildStep == RenderStep /\ selectedNode' = selectedNode

\* an onChange call is made in this step
OnChangeStep == Len(saved') = Len(saved) + 1

\* an element that carries both identity markers, whatever its kind
IsIdentified(elm) == elm.kind # "text" /\ Truthy(elm.moduleId) /\ Truthy(elm.nodeId)

\* the forest the specification describes for a canvas: one entry per
\* identified element, in document order, nested under its nearest identified
\* ancestor
RECURSIVE IdentifiedForest(_)
IdentifiedForest(nodes) ==
    IF nodes = << >> THEN << >>
    ELSE LET elm == Head(nodes) IN
         IF elm.kind = "text" THEN IdentifiedForest(Tail(nodes))
         ELSE IF IsIdentified(elm)
         THEN << [moduleId |-> elm.moduleId, nodeId |-> elm.nodeId,
                  children |-> IdentifiedForest(elm.childNodes)] >>
              \o IdentifiedForest(Tail(nodes))
         ELSE IdentifiedForest(elm.childNodes) \o IdentifiedForest(Tail(nodes))

\* a forest of items without their nodeInfo
RECURSIVE ShapeOf(_)
ShapeOf(items) ==
    [i \in 1..Len(items) |->
        [moduleId |-> items[i].moduleId, nodeId |-> items[i].nodeId,
         children |-> ShapeOf(items[i].children)]]

\* the last change to the canvas has been reported, and the forest of the last
\* callback rendered by an editor still in place
Settled ==
    /\ phase = "mounted" /\ canvasRef = "div"
    /\ records = 0 /\ pending = << >> /\ lastCallback # "none"

\* C1: once the notification for the last change has been processed (the
\* rebuild returned), the forest holds exactly one item per identified element
\* now in the canvas, in document order and nested as the elements are, and
\* none for any other.
C1_RebuildCompleteness ==
    (Settled /\ lastCallback = "ok") => ShapeOf(nodeTree) = IdentifiedForest(dom)

\* <<moduleId, nodeId>> of an item
PairOf(item) == << item.moduleId, item.nodeId >>

PairsOf(items) == { PairOf(item) : item \in ItemsOf(items) }

\* C2: when the resolver returns the item of node N, then after any rebuild it
\* returns an item of N if the new forest contains N, and none if it does not.
C2_SelectionStability ==
    [][(RebuildStep /\ selectedItem # << >>) =>
        LET n == PairOf(Head(selectedItem))
            after == selectedItemOf(nodeTree', selectedItemId')
        IN  IF n \in PairsOf(nodeTree')
            THEN after # << >> /\ PairOf(Head(after)) = n
            ELSE after = << >>]_vars

\* the end-to-end scenario: a component registered with the one property
\* "color", rendered with the static attribute color="red", and selected: the
\* one editor rendered receives "red"
ColorScenario ==
    /\ rendered # << >>
    /\ Head(rendered).value.nodeInfo = ButtonRed
    /\ Head(rendered).rows = << [key |-> "color", shown |-> "Editor", value |-> Red] >>

\* C3: in the end-to-end scenario onChange("blue") makes exactly one
\* saveNodeProperties call, with the item's moduleId and nodeId and the patch
\* list [{op: "replace", path: ["color"], value: "blue"}].
C3_EndToEndEdit ==
    [][(OnChangeStep /\ ColorScenario /\ edited' = << "color", Blue >>) =>
        saved' = Append(saved,
            [moduleId |-> Head(rendered).value.moduleId,
             nodeId |-> Head(rendered).value.nodeId,
             patches |-> << [op |-> "replace", path |-> << "color" >>,
                             value |-> Blue] >>])]_vars

\* C4: the patch list an edit of key k forwards holds only operations whose
\* path starts with k, and none when the new value is the value the item
\* already stores under k.
C4_PatchMinimality ==
    [][OnChangeStep =>
        LET value == Head(rendered).value
            k == edited'[1]
            v2 == edited'[2]
            patches == saved'[Len(saved')].patches
        IN  /\ \A i \in 1..Len(patches) : Head(patches[i].path) = k
            /\ (k \in DOMAIN value /\ value[k] = v2) => patches = << >>]_vars

\* an edit of a key to a value other than its attribute's has been forwarded
\* with a patch for it
C4_Witness ==
    /\ saved # << >>
    /\ selectedItem # << >>
    /\ edited # << >>
    /\ attributeValue(Head(selectedItem), edited[1]) # edited[2]
    /\ saved[Len(saved)].patches # << >>
    /\ saved[Len(saved)].moduleId = Head(selectedItem).moduleId

\* the canvas with the node at `path` replaced by its children
RECURSIVE Splice(_, _)
Splice(nodes, path) ==
    IF Len(path) = 1
    THEN SubSeq(nodes, 1, Head(path) - 1) \o nodes[Head(path)].childNodes
         \o SubSeq(nodes, Head(path) + 1, Len(nodes))
    ELSE [nodes EXCEPT ![Head(path)].childNodes = Splice(@, Tail(path))]

RECURSIVE NodeAt(_, _)
NodeAt(nodes, path) ==
    IF Len(path) = 1 THEN nodes[Head(path)]
    ELSE NodeAt(nodes[Head(path)].childNodes, Tail(path))

\* paths of the elements that lack one of the two markers
WrapperPaths(nodes) ==
    { p \in NodePaths(nodes) :
        NodeAt(nodes, p).kind # "text" /\ ~IsIdentified(NodeAt(nodes, p)) }

\* C5: an element that lacks a marker yields no item of its own, and the items
\* of its children stand in its parent's list where the element stands: the
\* forest is that of the canvas with the element replaced by its children.
C5_Flattening ==
    (Settled /\ lastCallback = "ok") =>
        \A p \in WrapperPaths(dom) :
            ~findNodes(Splice(dom, p)).threw =>
                nodeTree = findNodes(Splice(dom, p)).nodes

\* the canvas holds an element, of whatever kind, with both markers that the
\* registry lacks
RECURSIVE MeetsMissing(_)
MeetsMissing(elms) ==
    \E i \in 1..Len(elms) :
        /\ elms[i].kind # "text"
        /\ \/ /\ IsIdentified(elms[i])
              /\ \/ elms[i].moduleId \notin DOMAIN modules
                 \/ elms[i].nodeId \notin DOMAIN modules[elms[i].moduleId].nodes
           \/ MeetsMissing(elms[i].childNodes)

\* C6: a rebuild of a canvas holding an element with both markers whose module
\* or node the registry lacks raises, and publishes no forest.
C6_RegistryViolationRaises ==
    [][(NotifyStep /\ MeetsMissing(dom)) =>
        (lastCallback' = "threw" /\ nodeTree' = nodeTree /\ pending' = pending)]_vars

\* C7: the ComponentInfo of an item whose component is null or was never
\* registered is the default one, with no property, whatever was registered.
C7_FallbackLookup ==
    \A item \in ItemsOf(nodeTree) :
        (item.nodeInfo.component = NoComponent
            \/ item.nodeInfo.component \notin DOMAIN components)
        => /\ componentInfo(item) = DEFAULT_COMPONENT_INFO
           /\ componentInfo(item).properties = << >>

\* after a registration of another component, the item of a component never
\* registered is selected
C7_Witness ==
    /\ components # << >>
    /\ selectedItem # << >>
    /\ Head(selectedItem).nodeInfo.component \notin DOMAIN components \cup {NoComponent}
    /\ componentInfo(Head(selectedItem)) = DEFAULT_COMPONENT_INFO

\* C8: no two items of distinct (moduleId, nodeId) pairs have the same
\* identity string.
C8_IdentityInjective ==
    \A i, j \in ItemsOf(nodeTree) :
        PairOf(i) # PairOf(j) => getItemId(i) # getItemId(j)

\* C9: two items with equal (moduleId, nodeId), of this forest or of the one
\* before, have the same identity string whatever their nodeInfo and children.
C9_IdentityDeterminism ==
    [][LET items == ItemsOf(nodeTree) \cup ItemsOf(nodeTree')
           ids == { << PairOf(i), getItemId(i) >> : i \in items }
       IN  \A a, b \in ids : a[1] = b[1] => a[2] = b[2]]_vars

\* two items of one node that differ in children, built after the node's
\* registry entry was replaced
C9_Witness ==
    \E i, j \in ItemsOf(nodeTree) :
        /\ PairOf(i) = PairOf(j)
        /\ i.children # j.children
        /\ i.nodeInfo = ButtonBlue

\* C10: with the editor mounted and no change of the canvas since, the forest
\* is the one a rebuild of the canvas yields.
C10_EagerRebuildAtMount ==
    (phase = "mounted" /\ records = 0 /\ lastCallback = "none"
        /\ ~findNodes(dom).threw)
    => nodeTree = findNodes(dom).nodes

\* C11: once the editor has unmounted or the reference to the canvas is
\* cleared, no change of the former canvas queues a record for the observer,
\* runs a rebuild, changes the forest or raises.
C11_SubscriptionTeardown ==
    [][(phase = "unmounted" \/ canvasRef = "null") =>
        /\ records' <= records
        /\ nodeTree' = nodeTree
        /\ lastCallback' = lastCallback]_vars

\* the values the property panel shows: the value handed to the editor of each
\* row of a render, <<>> with no NodeEditor rendered
Displayed(r) ==
    IF r = << >> THEN << >>
    ELSE [i \in 1..Len(Head(r).rows) |->
            << Head(r).rows[i].key, Head(r).rows[i].value >>]

\* C12: an onChange call leaves the forest, the selection identity, the selected
\* item and the component registry as they were and makes exactly one
\* saveNodeProperties call; with the selection identity unchanged, the values
\* shown change only on the render of a rebuilt forest.
C12_EditChangesNothingLocally ==
    [][/\ OnChangeStep =>
            /\ nodeTree' = nodeTree
            /\ selectedItemId' = selectedItemId
            /\ components' = components
            /\ selectedItemOf(nodeTree', selectedItemId') = selectedItem
            /\ pending' = pending
            /\ Displayed(rendered') = Displayed(rendered)
            /\ SubSeq(saved', 1, Len(saved)) = saved
       /\ (selectedItemId' = selectedItemId
             /\ Displayed(rendered') # Displayed(rendered))
            => RenderStep]_vars

\* the color editor of an item shown with "red" has forwarded "blue", and the
\* item is still shown with "red"
C12_Witness ==
    /\ saved # << >>
    /\ edited = << "color", Blue >>
    /\ << "color", Red >> \in { Displayed(rendered)[i] : i \in DOMAIN Displayed(rendered) }

\* C13: for the item NodeEditor rendered and every key with an editor, the value
\* handed to the key's editor is the value of the item's first static attribute
\* of that name, and null when it has none, also when it has a dynamic one.
C13_StaticAttributesOnly ==
    rendered # << >> =>
        LET item == Head(rendered).value
            rows == Head(rendered).rows
            attrs == item.nodeInfo.attributes
        IN  \A r \in 1..Len(rows) :
              rows[r].shown = "Editor" =>
              LET static == { i \in 1..Len(attrs) :
                                attrs[i].kind = "static" /\ attrs[i].name = rows[r].key }
              IN  IF static = {}
                  THEN rows[r].value = NULL
                  ELSE \E i \in static :
                         /\ \A j \in static : i <= j
                         /\ rows[r].value = attrs[i].value

\* the item rendered has only a dynamic attribute "color", and the editor of
\* "color" was handed null
C13_Witness ==
    /\ rendered # << >>
    /\ Head(rendered).value.nodeInfo = ButtonDynamic
    /\ \E r \in 1..Len(Head(rendered).rows) :
         Head(rendered).rows[r] = [key |-> "color", shown |-> "Editor", value |-> NULL]

\* the items of a forest in pre-order: an item, then the items below it, then
\* its later siblings
RECURSIVE PreOrder(_)
PreOrder(items) ==
    IF items = << >> THEN << >>
    ELSE << Head(items) >> \o PreOrder(Head(items).children) \o PreOrder(Tail(items))

\* the places in pre-order of the items whose identity is the selection
Hits == { i \in 1..Len(PreOrder(nodeTree)) :
            getItemId(PreOrder(nodeTree)[i]) = selectedItemId }

\* C14: the resolver returns the first item in pre-order whose identity equals
\* the selection, and none when the selection is unset or no item has it.
C14_ResolverFirstInPreOrder ==
    IF ~Truthy(selectedItemId) \/ Hits = {}
    THEN selectedItem = << >>
    ELSE \E i \in Hits :
            /\ \A j \in Hits : i <= j
            /\ selectedItem = << PreOrder(nodeTree)[i] >>

\* two different items have the identity selected, and one is resolved
C14_Witness ==
    /\ selectedItem # << >>
    /\ \E i, j \in Hits : PreOrder(nodeTree)[i] # PreOrder(nodeTree)[j]

\* C15: a rebuild passes over no element: after it, every element of the canvas
\* that has both markers, of any kind and below any elements, has an item in
\* the forest.
C15_EveryElementWalked ==
    (Settled /\ lastCallback = "ok") =>
        \A p \in NodePaths(dom) :
            IsIdentified(NodeAt(dom, p)) =>
                << NodeAt(dom, p).moduleId, NodeAt(dom, p).nodeId >> \in PairsOf(nodeTree)

\* C16: whatever notifications came before, and in whatever batches the
\* mutations were reported, the forest a returning rebuild leaves is the one a
\* single rebuild of the canvas as it now stands yields.
C16_RebuildIdempotence ==
    (Settled /\ lastCallback = "ok" /\ ~findNodes(dom).threw)
    => nodeTree = findNodes(dom).nodes

\* a returning rebuild has left a forest of two items
C16_Witness ==
    /\ Settled
    /\ lastCallback = "ok"
    /\ ~findNodes(dom).threw
    /\ Len(PreOrder(nodeTree)) = 2

\* C17: a render of NodeEditor gives every key of the item's ComponentInfo a
\* row, the row of a key with no Editor (an entry without one, or no entry
\* object at all) shows the placeholder, no render raises, and no onChange call
\* is made for a key whose entry in the registry has no Editor.
C17_MissingEditorPlaceholder ==
    [][/\ (rendered' # rendered /\ rendered' # << >>) =>
            LET properties == componentInfo(Head(rendered').value).properties
                rows == Head(rendered').rows
            IN  /\ Len(rows) = Len(properties)
                /\ \A i \in 1..Len(properties) :
                      /\ rows[i].key = properties[i].key
                      /\ rows[i].shown # "TypeError"
                      /\ properties[i].info # "Editor" => rows[i].shown = "Editor not found"
       /\ OnChangeStep =>
            \E i \in 1..Len(componentInfo(Head(rendered).value).properties) :
                /\ componentInfo(Head(rendered).value).properties[i].key = edited'[1]
                /\ componentInfo(Head(rendered).value).properties[i].info = "Editor"]_vars

\* C18: a callback that raises (the registry lacks a node met, or the canvas
\* reference is gone) leaves the forest, the update waiting to be rendered and
\* the selection identity as they were, and a callback whose rebuild returns,
\* also after one that raised, hands the forest of the canvas as it stands to
\* the next render, which makes it the forest and changes the selection
\* identity only if the user selects another node in it.
C18_FailedRebuildKeepsSnapshot ==
    [][/\ NotifyStep =>
            /\ selectedItemId' = selectedItemId
            /\ nodeTree' = nodeTree
            /\ IF canvasRef = "null" \/ findNodes(dom).threw
               THEN pending' = pending /\ lastCallback' = "threw"
               ELSE pending' = << findNodes(dom).nodes >> /\ lastCallback' = "ok"
       /\ RenderStep => nodeTree' = Head(pending)
       /\ RebuildStep => selectedItemId' = selectedItemId]_vars

\* a rebuild has raised over a forest of one item or more, which is kept and
\* is not what the walk had built
C18_Witness ==
    /\ lastCallback = "threw"
    /\ records = 0
    /\ phase = "mounted"
    /\ nodeTree # << >>
    /\ pending = << >>
    /\ findNodes(dom).threw
    /\ nodeTree # findNodesSkipsMissing(dom).nodes

\* C19: the render of a rebuilt forest leaves the selection identity as it
\* was, and when the node the user selected had left the forest (the resolver
\* returned none) and the rebuilt forest holds it again, the resolver returns
\* an item of that node.
C19_SelectionSurvivesRebuilds ==
    [][RebuildStep =>
        /\ selectedItemId' = selectedItemId
        /\ (selectedNode # NULL /\ selectedItem = << >>
              /\ selectedNode \in PairsOf(nodeTree'))
           => LET after == selectedItemOf(nodeTree', selectedItemId')
              IN  after # << >> /\ PairOf(Head(after)) = selectedNode]_vars

\* C20: with an item selected, the value handed to the editor of each key is
\* the value of that static attribute in the registry's entry, as it now is,
\* for the item's module and node.
C20_DisplayedTracksRegistry ==
    (phase = "mounted" /\ rendered # << >>
        /\ HasNodeInfo(Head(rendered).value.moduleId, Head(rendered).value.nodeId))
    => LET item == Head(rendered).value
           rows == Head(rendered).rows
           current == [item EXCEPT !.nodeInfo = modules[item.moduleId].nodes[item.nodeId]]
       IN  \A r \in 1..Len(rows) :
              rows[r].shown = "Editor" => rows[r].value = attributeValue(current, rows[r].key)

\* the editor over content whose elements are all identified, with a registry
\* that holds them all
NextSelect ==
    \/ Mount
    \/ InsertNode(SelectTemplates, MaxNodes, MaxEditBatch)
    \/ RemoveNode(MaxEditBatch)
    \/ Notify
    \/ RenderEditor
    \/ SelectItem
    \/ Deselect
    \/ SetRegistry(EditRegistries)

SpecSelect == Init /\ [][NextSelect]_vars

\* the same editor and content, with up to MaxBatch mutations delivered to one
\* callback, so that a node and another one come back in a single rebuild
NextReselect ==
    \/ Mount
    \/ InsertNode(SelectTemplates, MaxNodes, MaxBatch)
    \/ RemoveNode(MaxBatch)
    \/ Notify
    \/ RenderEditor
    \/ SelectItem
    \/ Deselect
    \/ SetRegistry(EditRegistries)

SpecReselect == Init /\ [][NextReselect]_vars
====
